---- MODULE Spec2Model ----
(***************************************************************************)
(* The 1-sigma envelope computation of blazar_plots.py:                    *)
(*   get_params_1sigma_ranges, get_min_max_per_point, plot_1sigma and      *)
(*   plot_1sigma_plots.                                                    *)
(* Parameter vectors are sequences of integers.  Fluxes are integers; an   *)
(* interpolated flux is kept as a numerator over the common denominator    *)
(* Den(x) of the spectrum's grid, so linear interpolation is exact.        *)
(***************************************************************************)
EXTENDS Integers, Sequences, FiniteSets, TLC

\* ------------------------------------------------------------------ bounds
NumSamples == 3    \* rows of flat_samples
MaxList    == 2    \* longest model_params_list given to get_min_max_per_point alone
MaxLines   == 2    \* largest max_num_lines_to_graph
MaxCalls   == 2    \* longest sequence of plotting calls
MaxValues  == 2    \* longest array given to scale_to_values

\* values of one parameter, and the seeds of the generators
ParamValues == {0, 1}

Seeds == {0, 1}

\* modelProperties(eic).NUM_DIM, the number of model parameters.  The module
\* header of blazar_plots.py lists 9; the model takes 2 to keep the sample
\* arrays enumerable.
NUM_DIM == 2

\* np.inf, larger than every flux numerator of the model
Inf == 1000

\* ----------------------------------------------------------------- helpers
Range(s) == {s[n] : n \in DOMAIN s}

SetMin(S) == CHOOSE m \in S : \A n \in S : m <= n

SetMax(S) == CHOOSE m \in S : \A n \in S : m >= n

Vectors(w) == [1..w -> ParamValues]

\* Python's None where a name stem is expected, and the stems the code builds:
\* a prefix and the number random.getrandbits(20) returned.
NoStem == [kind |-> "None", bits |-> 0]

UserStem == [kind |-> "user", bits |-> 0]

\* No spectrum: the loop is between two iterations.
NoModel == [x |-> <<>>, y |-> <<>>]

VARIABLES
    fn,                      \* the function that was called
    pc,                      \* position in it
    flat_samples,            \* argument: the flattened chain, one vector per row
    indices_within_1sigma,   \* argument: row numbers of the 1-sigma set, in iteration order
    min_chi_squared_index,   \* argument: row number of the best fit
    both, extreme,           \* arguments
    max_num_lines_to_graph,  \* argument
    return_models,           \* argument of plot_1sigma_plots
    name_stem,               \* argument, None or a stem; later the stem in use
    delete_after,
    py_random,               \* state of Python's random module
    np_random,               \* state of numpy's global generator
    response,                \* the external model: grid and flux per parameter vector
    minima, maxima,          \* get_params_1sigma_ranges locals / result
    k,                       \* its position in indices_within_1sigma
    samples,                 \* np.unique(flat_samples[indices_within_1sigma], axis=0)
    subsample,               \* samples[indices]
    to_plot,
    best_model,
    v_vals,                  \* get_min_max_per_point argument
    model_params_list,       \* get_min_max_per_point argument
    lowest_per_point, highest_per_point,
    i,                       \* number of completed iterations of the model loop
    model,                   \* the spectrum of the current iteration, None between iterations
    vFv_interpolated,        \* interpolated spectra folded so far, in order
    calls,                   \* parameter vectors the external model was run for, in order
    models,                  \* plot_1sigma_plots' list of models
    run,                     \* 1 on the first call, 2 on the call repeated with the same seed
    seed,                    \* the seed both generators were seeded with before the call
    prev,                    \* the first call's selection, kept by the caller
    args,                    \* the call's remaining arguments (show, save, folder, ...)
    interactive,             \* the matplotlib backend opens windows and show() blocks
    figures,                 \* pyplot's figures: label -> the artists drawn on it
    current,                 \* label of the current figure, "none" without one
    shown,                   \* plt.show() calls made by the call
    saved,                   \* plt.savefig() calls made by the call
    pickled,                 \* pickle.dump(fig) calls made by the call
    new_min, new_max,        \* what scale_to_values returned
    y_lim,                   \* the limits last given to plt.ylim()
    drew,                    \* the artists the call has drawn
    canvas,                  \* the figure as the call leaves it to savefig() and show()
    boundaries,              \* user_SED_plot.py: "default" or the four limits
    eic,                     \* user_SED_plot.py: configs["eic"]
    components,              \* user_SED_plot.py: the peaks of the component files
    accepts_fixed_params,    \* the imported blazar_plots takes fixed_params
    x_lim,                   \* user_SED_plot.py: the limits given to ax.set_xlim
    bound,                   \* user_SED_plot.py: the names new_min, new_max once bound
    raised                   \* user_SED_plot.py: the exception that ended the script

scriptVars == <<boundaries, eic, components, accepts_fixed_params, x_lim, bound, raised>>

inputVars == <<flat_samples, indices_within_1sigma, min_chi_squared_index, both, extreme,
               max_num_lines_to_graph, return_models, response, seed, args, interactive,
               scriptVars>>

\* the arguments a call of one of the chain's functions leaves as they are
chainVars == <<flat_samples, indices_within_1sigma, min_chi_squared_index,
               max_num_lines_to_graph, response, seed, interactive, scriptVars>>

figVars == <<figures, current, shown, saved, pickled, new_min, new_max, y_lim, drew, canvas>>

rngVars == <<py_random, np_random>>

rangeVars == <<minima, maxima, k>>

selVars == <<samples, subsample, to_plot, best_model>>

envVars == <<v_vals, model_params_list, lowest_per_point, highest_per_point, i, model,
             vFv_interpolated>>

vars == <<fn, pc, inputVars, name_stem, delete_after, rngVars, rangeVars, selVars, envVars,
          calls, models, run, prev, figVars>>

\* -------------------------------------------------- get_params_1sigma_ranges
\* Width of the sample vectors (number of columns of flat_samples).
Width(fs) == Len(fs[1])

\* Lower with <= : a later vector with the same value would replace the held one.
LowerEq(p, cur, d) == p[d] <= cur[d]

\* line 648: params[i] < minima[i][i]
Lower(p, cur, d) == p[d] < cur[d]

\* line 650: params[i] > maxima[i][i]
Higher(p, cur, d) == p[d] > cur[d]

\* lines 647-651 for one params: the inner loop over range(dims)
StepMinima(mins, params) ==
    [dim \in 1..NUM_DIM |-> IF Lower(params, mins[dim], dim) THEN params ELSE mins[dim]]

StepMaxima(maxs, params) ==
    [dim \in 1..NUM_DIM |-> IF Higher(params, maxs[dim], dim) THEN params ELSE maxs[dim]]

\* FirstOfSet taking the first row of the chain, in the set or not.
FirstOfAll(fs, idx) == fs[1]

\* lines 643-644: every minimum and maximum starts as the first vector of the set
FirstOfSet(fs, idx) == fs[idx[1]]

\* line 646: params = flat_samples[index]
RowAt(fs, idx, n) == fs[idx[n]]

\* lines 640-644.  indices_within_1sigma[0] of an empty list raises IndexError.
RangesInit ==
    /\ pc = "ranges"
    /\ IF indices_within_1sigma = <<>>
       THEN /\ pc' = "error"
            /\ UNCHANGED rangeVars
       ELSE /\ minima' = [dim \in 1..NUM_DIM |-> FirstOfSet(flat_samples, indices_within_1sigma)]
            /\ maxima' = [dim \in 1..NUM_DIM |-> FirstOfSet(flat_samples, indices_within_1sigma)]
            /\ k' = 1
            /\ pc' = "ranges_loop"
    /\ UNCHANGED <<fn, inputVars, name_stem, delete_after, rngVars, selVars, envVars, calls,
                   models, run, prev, figVars>>

\* lines 645-651, one index.  params[i] with i beyond the vector raises IndexError.
RangesStep ==
    /\ pc = "ranges_loop"
    /\ k <= Len(indices_within_1sigma)
    /\ LET params == RowAt(flat_samples, indices_within_1sigma, k)
       IN  IF Len(params) < NUM_DIM
           THEN /\ pc' = "error"
                /\ UNCHANGED rangeVars
           ELSE /\ minima' = StepMinima(minima, params)
                /\ maxima' = StepMaxima(maxima, params)
                /\ k' = k + 1
                /\ pc' = pc
    /\ UNCHANGED <<fn, inputVars, name_stem, delete_after, rngVars, selVars, envVars, calls,
                   models, run, prev, figVars>>

\* line 654; back in the caller at lines 416 / 535:
\* to_plot = np.concatenate((min_per_param, max_per_param))
RangesReturn ==
    /\ pc = "ranges_loop"
    /\ k > Len(indices_within_1sigma)
    /\ IF fn = "get_params_1sigma_ranges"
       THEN /\ pc' = "done"
            /\ UNCHANGED to_plot
       ELSE /\ pc' = "select_random"
            /\ to_plot' = minima \o maxima
    /\ UNCHANGED <<fn, inputVars, name_stem, delete_after, rngVars, rangeVars, samples,
                   subsample, best_model, envVars, calls, models, run, prev, figVars>>

\* ------------------------------------------------------------ random numbers
\* One step of a generator (a full-period congruential generator stands for
\* the Mersenne Twister of both random and numpy.random).
NextRand(s) == (5 * s + 3) % 16

\* GetRandBits drawing from numpy's generator instead.
GetRandBitsNumpy(py, np) == [bits |-> NextRand(np), py |-> py, np |-> NextRand(np)]

\* random.getrandbits(20) (lines 396, 515, 545, 667): the number returned and
\* both generators afterwards.  It draws from Python's random module, never
\* from numpy's generator.
GetRandBits(py, np) == [bits |-> NextRand(py), py |-> NextRand(py), np |-> np]

\* --------------------------------------------------- blazar_model.make_model
\* The external model as a black box: a log-frequency grid, the same for every
\* run of one call (min_freq, max_freq are fixed), and a flux per parameter vector.
make_model(resp, params) == [x |-> resp.x, y |-> resp.y[params]]

\* ------------------------------------------------------ interpolate.interp1d
RECURSIVE Den(_)
\* common denominator of the interpolated values on grid x
Den(x) == IF Len(x) < 2 THEN 1 ELSE (x[2] - x[1]) * Den(Tail(x))

\* np.searchsorted(x, v): the number of grid points below v
SearchSorted(x, v) == Cardinality({m \in 1..Len(x) : x[m] < v})

\* x_new_indices.clip(1, len(x)-1), as interp1d does for linear interpolation
Clip(n, lo, hi) == IF n < lo THEN lo ELSE IF n > hi THEN hi ELSE n

\* the segment [lo, hi] (1-based) used for v
SegmentHi(x, v) == Clip(SearchSorted(x, v), 1, Len(x) - 1) + 1

\* InterpAt without extrapolation: outside the grid the end value is held.
InterpClamped(x, y, v) ==
    LET w == IF v < x[1] THEN x[1] ELSE IF v > x[Len(x)] THEN x[Len(x)] ELSE v
        hi == SegmentHi(x, w)
        lo == hi - 1
    IN  Den(x) * y[lo] + (y[hi] - y[lo]) * (w - x[lo]) * (Den(x) \div (x[hi] - x[lo]))

\* lines 678-679: interp1d(x, y, fill_value='extrapolate')(v), as a numerator
\* over Den(x): slope * (v - x_lo) + y_lo on the segment found, also outside
\* the grid
InterpAt(x, y, v) ==
    LET hi == SegmentHi(x, v)
        lo == hi - 1
    IN  Den(x) * y[lo] + (y[hi] - y[lo]) * (v - x[lo]) * (Den(x) \div (x[hi] - x[lo]))

\* line 679: f(v_vals)
Interpolate(m, vs) == [pt \in 1..Len(vs) |-> InterpAt(m.x, m.y, vs[pt])]

\* ----------------------------------------------------- get_min_max_per_point
\* Fold with the second test as an elif of the first.
FoldElif(low, high, vals) ==
    [lowest  |-> [pt \in 1..Len(low) |-> IF vals[pt] < low[pt] THEN vals[pt] ELSE low[pt]],
     highest |-> [pt \in 1..Len(high) |->
                    IF ~(vals[pt] < low[pt]) /\ vals[pt] > high[pt] THEN vals[pt] ELSE high[pt]]]

\* Fold keeping only the last spectrum.
FoldLast(low, high, vals) == [lowest |-> vals, highest |-> vals]

\* lines 680-684: both envelopes after one interpolated spectrum
Fold(low, high, vals) ==
    [lowest  |-> [pt \in 1..Len(low) |-> IF vals[pt] < low[pt] THEN vals[pt] ELSE low[pt]],
     highest |-> [pt \in 1..Len(high) |-> IF vals[pt] > high[pt] THEN vals[pt] ELSE high[pt]]]

\* lines 661-669
EnvInit ==
    /\ pc = "env"
    /\ lowest_per_point' = [pt \in 1..Len(v_vals) |-> Inf]
    /\ highest_per_point' = [pt \in 1..Len(v_vals) |-> -Inf]
    /\ IF name_stem = NoStem
       THEN /\ delete_after' = TRUE
            /\ name_stem' = [kind |-> "for_plotting",
                             bits |-> GetRandBits(py_random, np_random).bits]
            /\ py_random' = GetRandBits(py_random, np_random).py
            /\ np_random' = GetRandBits(py_random, np_random).np
       ELSE /\ delete_after' = FALSE
            /\ UNCHANGED <<name_stem, py_random, np_random>>
    /\ i' = 0
    /\ model' = NoModel
    /\ vFv_interpolated' = <<>>
    /\ pc' = "env_loop"
    /\ UNCHANGED <<fn, inputVars, rangeVars, selVars, v_vals, model_params_list,
                   calls, models, run, prev, figVars>>

\* ParamsAt walking the list from its end.
ParamsLastFirst(list, n) == list[Len(list) - n]

\* line 671: params = model_params_list[i], after n completed iterations
ParamsAt(list, n) == list[n + 1]

\* lines 670-677: the model is run for model_params_list[i]
EnvModel ==
    /\ pc = "env_loop"
    /\ model = NoModel
    /\ i < Len(model_params_list)
    /\ model' = make_model(response, ParamsAt(model_params_list, i))
    /\ calls' = Append(calls, ParamsAt(model_params_list, i))
    /\ UNCHANGED <<fn, pc, inputVars, name_stem, delete_after, rngVars, rangeVars, selVars,
                   v_vals, model_params_list, lowest_per_point, highest_per_point, i,
                   vFv_interpolated, models, run, prev, figVars>>

\* lines 678-684: the spectrum is interpolated on v_vals and folded in
EnvFold ==
    /\ pc = "env_loop"
    /\ model # NoModel
    /\ LET vals == Interpolate(model, v_vals)
       IN  /\ lowest_per_point' = Fold(lowest_per_point, highest_per_point, vals).lowest
           /\ highest_per_point' = Fold(lowest_per_point, highest_per_point, vals).highest
           /\ vFv_interpolated' = Append(vFv_interpolated, vals)
    /\ i' = i + 1
    /\ model' = NoModel
    /\ UNCHANGED <<fn, pc, inputVars, name_stem, delete_after, rngVars, rangeVars, selVars,
                   v_vals, model_params_list, calls, models, run, prev, figVars>>

\* lines 686-689
EnvReturn ==
    /\ pc = "env_loop"
    /\ model = NoModel
    /\ i = Len(model_params_list)
    /\ pc' = IF fn = "get_min_max_per_point" THEN "done" ELSE "finish"
    /\ UNCHANGED <<fn, inputVars, name_stem, delete_after, rngVars, rangeVars, selVars,
                   envVars, calls, models, run, prev, figVars>>

\* ------------------------------------------------------------ scale_to_values
\* a multiplier argument: None, or the number n / d
None == [none |-> TRUE, n |-> 0, d |-> 1]

Mult(n, d) == [none |-> FALSE, n |-> n, d |-> d]

\* the rational n / d, d positive
Rat(n, d) == [n |-> n, d |-> d]

Leq(a, b) == a.n * b.d <= b.n * a.d

Same(a, b) == a.n * b.d = b.n * a.d

\* lines 609 and 611
DefaultMultiplier == 5

\* lines 608-611: a multiplier left at None
OrDefault(m) == IF m.none THEN Mult(DefaultMultiplier, 1) ELSE m

\* scale_to_values multiplying on both sides of zero.
ScaleNoSign(values, upper_adjust_multiplier, lower_adjust_multiplier) ==
    LET upper == OrDefault(upper_adjust_multiplier)
        lower == OrDefault(lower_adjust_multiplier)
    IN  [new_min |-> Rat(lower.n * SetMin(Range(values)), lower.d),
         new_max |-> Rat(upper.n * SetMax(Range(values)), upper.d)]

\* lines 607-622, for non-empty values and positive multipliers, in exact
\* arithmetic
scale_to_values(values, upper_adjust_multiplier, lower_adjust_multiplier) ==
    LET upper    == OrDefault(upper_adjust_multiplier)
        lower    == OrDefault(lower_adjust_multiplier)
        data_min == SetMin(Range(values))
        data_max == SetMax(Range(values))
    IN  [new_min |-> IF data_min < 0 THEN Rat(lower.n * data_min, lower.d)
                                     ELSE Rat(lower.d * data_min, lower.n),
         new_max |-> IF data_max < 0 THEN Rat(upper.d * data_max, upper.n)
                                     ELSE Rat(upper.n * data_max, upper.d)]

\* lines 607-622: the call of scale_to_values on its own; np.min of an empty
\* array raises ValueError
ScaleCall ==
    /\ fn = "scale_to_values"
    /\ pc = "scale"
    /\ IF args.values = <<>>
       THEN /\ pc' = "error"
            /\ UNCHANGED <<new_min, new_max>>
       ELSE LET r == scale_to_values(args.values, args.upper_adjust_multiplier,
                                     args.lower_adjust_multiplier)
            IN  /\ new_min' = r.new_min
                /\ new_max' = r.new_max
                /\ pc' = "done"
    /\ UNCHANGED <<fn, inputVars, name_stem, delete_after, rngVars, rangeVars, selVars,
                   envVars, calls, models, run, prev, figures, current, shown, saved,
                   pickled, y_lim, drew, canvas>>

\* ---------------------------------------------------------- matplotlib.pyplot
\* Labels, scales, legends and titles are left out: a figure is the sequence of
\* the artists drawn on it.
FigureLabels == {"SED Plot", "Model and Data", "Plot of data", "1 sigma", "Figure 1"}

NoFigures == [label \in FigureLabels |-> <<>>]

NoLimits == [set |-> FALSE, new_min |-> Rat(0, 1), new_max |-> Rat(0, 1)]

\* the pyplot state and the call's counters, as one value
Plt ==
    [figures |-> figures, current |-> current, shown |-> shown, saved |-> saved,
     pickled |-> pickled, new_min |-> new_min, new_max |-> new_max, y_lim |-> y_lim,
     drew |-> drew, canvas |-> canvas]

SetPlt(st) ==
    /\ figures' = st.figures
    /\ current' = st.current
    /\ shown' = st.shown
    /\ saved' = st.saved
    /\ pickled' = st.pickled
    /\ new_min' = st.new_min
    /\ new_max' = st.new_max
    /\ y_lim' = st.y_lim
    /\ drew' = st.drew
    /\ canvas' = st.canvas

\* a call begins: nothing shown, saved or drawn by it yet
Begin(st) == [st EXCEPT !.shown = 0, !.saved = 0, !.pickled = 0, !.drew = <<>>]

\* the figure a pyplot call acts on: the current one, or a new one without any
Target(st) == IF st.current = "none" THEN "Figure 1" ELSE st.current

\* plt.figure(label) makes the figure of that label the current one, creating
\* it if there is none; a figure that exists keeps what was drawn on it
PltFigure(st, label) == [st EXCEPT !.current = label]

\* plt.xlabel, plt.xscale and the like: they act on the current axes
PltAxes(st) == [st EXCEPT !.current = Target(st)]

Artist(kind, x, y, fmt) == [kind |-> kind, x |-> x, y |-> y, fmt |-> fmt]

\* plt.plot, plt.errorbar, ax.fill_between
PltDraw(st, artist) ==
    [st EXCEPT !.figures[Target(st)] = Append(@, artist),
               !.current = Target(st),
               !.drew = Append(@, artist)]

PltYlim(st, lo, hi) ==
    [st EXCEPT !.y_lim = [set |-> TRUE, new_min |-> lo, new_max |-> hi],
               !.current = Target(st)]

\* plt.savefig writes the current figure
PltSavefig(st) ==
    [st EXCEPT !.saved = @ + 1, !.canvas = st.figures[Target(st)], !.current = Target(st)]

\* plt.show displays the figures; with a backend that opens windows it
\* returns when they are closed, and a closed figure is destroyed
PltShow(st, inter) ==
    [st EXCEPT !.shown = @ + 1,
               !.canvas = st.figures[Target(st)],
               !.figures = IF inter THEN NoFigures ELSE @,
               !.current = IF inter THEN "none" ELSE @]

\* np.power(10, a)
Power10(a) == [pt \in 1..Len(a) |-> 10 ^ a[pt]]

\* lines 75-80 / 147-152: the model's points, from log scale unless log is False
ModelXY(model_, log) ==
    IF log THEN [x |-> Power10(model_.x), y |-> Power10(model_.y)] ELSE model_

\* lines 94-97 / 158-161 / 219-222
SaveAndShow(st, a, inter) ==
    LET s1 == IF a.save THEN PltSavefig(st) ELSE st
    IN  IF a.show THEN PltShow(s1, inter) ELSE s1

\* plot_model, lines 75-97
plot_model(st, a, inter) ==
    LET xy == ModelXY(a.model, a.log)
        s1 == PltAxes(IF a.clear_plot THEN PltFigure(st, "SED Plot") ELSE st)
        s2 == IF a.points THEN PltDraw(s1, Artist("plot", xy.x, xy.y, a.point_style)) ELSE s1
        s3 == IF a.line THEN PltDraw(s2, Artist("plot", xy.x, xy.y, a.line_style)) ELSE s2
    IN  SaveAndShow(s3, a, inter)

\* plot_data, lines 199-222
plot_data(st, a, inter) ==
    LET s1 == PltAxes(IF a.clear_plot THEN PltFigure(st, "Plot of data") ELSE st)
        s2 == PltDraw(s1, Artist("plot", a.v_data, a.vFv_data, "."))
        r  == scale_to_values(a.vFv_data, a.upper_adjust_multiplier,
                              a.lower_adjust_multiplier)
        s3 == IF a.adjust_scale
              THEN PltYlim([s2 EXCEPT !.new_min = r.new_min, !.new_max = r.new_max],
                           r.new_min, r.new_max)
              ELSE s2
        s4 == PltDraw(s3, Artist("errorbar", a.v_data, a.vFv_data, a.err_data))
    IN  SaveAndShow(s4, a, inter)

\* plot_model_and_data, lines 140-161
plot_model_and_data(st, a, inter) ==
    LET s1 == IF a.clear_plot THEN PltFigure(st, "Model and Data") ELSE st
        s2 == plot_data(s1, [a EXCEPT !.clear_plot = FALSE, !.save = FALSE, !.show = FALSE],
                        inter)
        xy == ModelXY(a.model, a.log)
        s3 == IF a.points THEN PltDraw(s2, Artist("plot", xy.x, xy.y, a.point_style)) ELSE s2
        s4 == IF a.line THEN PltDraw(s3, Artist("plot", xy.x, xy.y, a.line_style)) ELSE s3
    IN  SaveAndShow(s4, a, inter)

\* ------------------------------------------ plot_1sigma, plot_1sigma_plots
\* lexicographic order of two vectors of one width
LexLess(a, b) ==
    \E d \in 1..Len(a) : a[d] < b[d] /\ \A e \in 1..(d - 1) : a[e] = b[e]

RECURSIVE SortedRows(_)
\* the vectors of S in lexicographic order
SortedRows(S) ==
    IF S = {} THEN <<>>
    ELSE LET first == CHOOSE a \in S : \A b \in S \ {a} : LexLess(a, b)
         IN  <<first>> \o SortedRows(S \ {first})

\* lines 418 / 537: np.unique(flat_samples[indices_within_1sigma], axis=0)
Unique(fs, idx) == SortedRows({fs[idx[n]] : n \in 1..Len(idx)})

RECURSIVE Arange(_)
\* np.arange(0, n) as row numbers 1..n
Arange(n) == IF n = 0 THEN <<>> ELSE Append(Arange(n - 1), n)

RECURSIVE Shuffle(_, _, _)
\* numpy's shuffle of perm[1..n]: for each position from the last down to the
\* second, swap it with a position drawn at or below it
Shuffle(perm, n, s) ==
    IF n < 2 THEN [perm |-> perm, state |-> s]
    ELSE LET r == NextRand(s)
             j == (r % n) + 1
         IN  Shuffle([perm EXCEPT ![n] = perm[j], ![j] = perm[n]], n - 1, r)

RECURSIVE ChoiceWithReplacement(_, _, _)
\* Choice with replace=True: size independent draws.
ChoiceWithReplacement(n, size, s) ==
    IF size = 0 THEN [indices |-> <<>>, state |-> s]
    ELSE LET r    == NextRand(s)
             rest == ChoiceWithReplacement(n, size - 1, r)
         IN  [indices |-> <<(r % n) + 1>> \o rest.indices, state |-> rest.state]

\* lines 421 / 540: np.random.choice(np.arange(0, n), size=size, replace=False)
\* is permutation(n)[:size]
Choice(n, size, s) ==
    LET sh == Shuffle(Arange(n), n, s)
    IN  [indices |-> [slot \in 1..size |-> sh.perm[slot]], state |-> sh.state]

\* line 419
Min2(a, b) == IF a < b THEN a ELSE b

\* Concatenate dropping what to_plot held.
Overwrite(tp, rows) == rows

\* lines 424 / 543: np.concatenate((to_plot, samples[indices]))
Concatenate(tp, rows) == tp \o rows

PlotFns == {"plot_1sigma", "plot_1sigma_plots"}

\* lines 381-398 / 500-517: the figure named by the title (title and no_title
\* left at their defaults) and the name stem
PlotStart ==
    /\ pc = "plot"
    /\ IF name_stem = NoStem
       THEN /\ delete_after' = TRUE
            /\ name_stem' = [kind |-> "for_plotting",
                             bits |-> GetRandBits(py_random, np_random).bits]
            /\ py_random' = GetRandBits(py_random, np_random).py
            /\ np_random' = GetRandBits(py_random, np_random).np
       ELSE /\ delete_after' = FALSE
            /\ UNCHANGED <<name_stem, py_random, np_random>>
    /\ SetPlt(PltAxes(PltFigure(Begin(Plt), "1 sigma")))
    /\ pc' = "best"
    /\ UNCHANGED <<fn, inputVars, rangeVars, selVars, envVars, calls, models, run, prev>>

\* line 399 / 518: the row of flat_samples the best model is made from
BestParams(fs, best) == fs[best]

\* lines 399-411 / 518-530: the best-fit model is run; to_plot starts empty
PlotBest ==
    /\ pc = "best"
    /\ LET params == BestParams(flat_samples, min_chi_squared_index)
       IN  /\ best_model' = make_model(response, params)
           /\ calls' = Append(calls, params)
    /\ to_plot' = <<>>
    /\ pc' = "select_extreme"
    /\ UNCHANGED <<fn, inputVars, name_stem, delete_after, rngVars, rangeVars, samples,
                   subsample, envVars, models, run, prev, figVars>>

\* lines 413-415 / 532-534: get_params_1sigma_ranges is called if extreme or both
SelectExtreme ==
    /\ pc = "select_extreme"
    /\ pc' = IF extreme \/ both THEN "ranges" ELSE "select_random"
    /\ UNCHANGED <<fn, inputVars, name_stem, delete_after, rngVars, rangeVars, selVars,
                   envVars, calls, models, run, prev, figVars>>

\* lines 419-424 / 538-543: the rows of samples that are plotted, and numpy's
\* generator afterwards
Subsample(uniq, max_lines, s) ==
    LET num_lines_to_graph == Min2(Len(uniq), max_lines)
        drawn == Choice(Len(uniq), num_lines_to_graph, s)
    IN  IF num_lines_to_graph # Len(uniq)
        THEN [rows  |-> [line \in 1..num_lines_to_graph |-> uniq[drawn.indices[line]]],
              state |-> drawn.state]
        ELSE [rows |-> uniq, state |-> s]

\* lines 417-424 / 536-543: the random subsample, if not extreme or both
SelectRandom ==
    /\ pc = "select_random"
    /\ IF ~extreme \/ both
       THEN LET uniq == Unique(flat_samples, indices_within_1sigma)
                sub  == Subsample(uniq, max_num_lines_to_graph, np_random)
            IN  /\ samples' = uniq
                /\ np_random' = sub.state
                /\ subsample' = sub.rows
                /\ to_plot' = Concatenate(to_plot, sub.rows)
       ELSE UNCHANGED <<samples, np_random, subsample, to_plot>>
    /\ pc' = IF fn = "plot_1sigma" THEN "envelope" ELSE "lines"
    /\ UNCHANGED <<fn, inputVars, name_stem, delete_after, py_random, rangeVars, best_model,
                   envVars, calls, models, run, prev, figVars>>

\* lines 408, 426-435: get_min_max_per_point(logv, to_plot, name_stem=name_stem, ...)
PlotEnvelope ==
    /\ pc = "envelope"
    /\ v_vals' = best_model.x
    /\ model_params_list' = to_plot
    /\ pc' = "env"
    /\ UNCHANGED <<fn, inputVars, name_stem, delete_after, rngVars, rangeVars, selVars,
                   lowest_per_point, highest_per_point, i, model, vFv_interpolated, calls,
                   models, run, prev, figVars>>

\* lines 545-546: plot_1sigma_plots takes a new name stem for its lines
PlotsStem ==
    /\ pc = "lines"
    /\ name_stem' = [kind |-> "plotting", bits |-> GetRandBits(py_random, np_random).bits]
    /\ py_random' = GetRandBits(py_random, np_random).py
    /\ np_random' = GetRandBits(py_random, np_random).np
    /\ models' = <<>>
    /\ pc' = "lines_loop"
    /\ UNCHANGED <<fn, inputVars, delete_after, rangeVars, selVars, envVars, calls, run, prev, figVars>>

\* line 556: the arguments plot_model gets for one line; the others are its
\* defaults (line 43-45)
LineArgs(line, show) ==
    [model |-> line, line |-> TRUE, points |-> FALSE, point_style |-> ".",
     line_style |-> "r-", clear_plot |-> FALSE, save |-> FALSE, show |-> show, log |-> TRUE]

\* lines 547-558: one model per row of to_plot, kept in models (a second time
\* with return_models) and drawn by plot_model, which is given show
PlotsModel ==
    /\ pc = "lines_loop"
    /\ i < Len(to_plot)
    /\ LET params == to_plot[i + 1]
           line   == make_model(response, params)
       IN  /\ models' = IF return_models THEN models \o <<line, line>>
                                         ELSE Append(models, line)
           /\ calls' = Append(calls, params)
           /\ SetPlt(plot_model(Plt, LineArgs(line, args.show), interactive))
    /\ i' = i + 1
    /\ UNCHANGED <<fn, pc, inputVars, name_stem, delete_after, rngVars, rangeVars, selVars,
                   v_vals, model_params_list, lowest_per_point, highest_per_point, model,
                   vFv_interpolated, run, prev>>

\* line 560: the loop of plot_1sigma_plots is over
PlotsEnd ==
    /\ pc = "lines_loop"
    /\ i = Len(to_plot)
    /\ pc' = "finish"
    /\ UNCHANGED <<fn, inputVars, name_stem, delete_after, rngVars, rangeVars, selVars,
                   envVars, calls, models, run, prev, figVars>>

\* a folder argument: None, or a path as its characters
NoFolder == [none |-> TRUE, path |-> <<>>]

Folder(path) == [none |-> FALSE, path |-> path]

\* lines 457-461 (plot_1sigma) and 581-584 (plot_1sigma_plots): folder[-1] of
\* an empty string raises IndexError
FolderRaises(f, a) ==
    IF f = "plot_1sigma"
    THEN (a.save \/ a.serialize) /\ (a.folder.none \/ a.folder.path = <<>>)
    ELSE ~a.folder.none /\ a.folder.path = <<>>

\* lines 437-448 / 560-572: the envelope or the lines' scales, the best
\* model, the data and the y limits
FinishDraw(st, f, a) ==
    LET s1 == IF f = "plot_1sigma"
              THEN PltDraw(PltDraw(st, Artist("fill_between", v_vals, lowest_per_point,
                                              highest_per_point)),
                           Artist("plot", best_model.x, best_model.y, "-"))
              ELSE PltDraw(PltAxes(st), Artist("plot", Power10(best_model.x),
                                               Power10(best_model.y), "-"))
        s2 == PltDraw(s1, Artist("errorbar", a.v_data, a.vFv_data, a.err_data))
        r  == scale_to_values(a.vFv_data, a.upper_adjust_multiplier,
                              a.lower_adjust_multiplier)
    IN  PltYlim([s2 EXCEPT !.new_min = r.new_min, !.new_max = r.new_max],
                r.new_min, r.new_max)

\* lines 466-478 / 589-601: savefig if save, pickle if serialize, show if show
FinishOutput(st, a, inter) ==
    LET s1 == IF a.save THEN PltSavefig(st) ELSE st
        s2 == IF a.serialize THEN [s1 EXCEPT !.pickled = @ + 1] ELSE s1
    IN  IF a.show THEN PltShow(s2, inter) ELSE s2

\* lines 437-478 / 560-603: the figure is drawn, saved and shown; the function
\* returns (file is left at None)
PlotFinish ==
    /\ pc = "finish"
    /\ IF FolderRaises(fn, args)
       THEN /\ SetPlt(FinishDraw(Plt, fn, args))
            /\ pc' = "error"
       ELSE /\ SetPlt(FinishOutput(FinishDraw(Plt, fn, args), args, interactive))
            /\ pc' = "done"
    /\ UNCHANGED <<fn, inputVars, name_stem, delete_after, rngVars, rangeVars, selVars,
                   envVars, calls, models, run, prev>>

\* The caller repeats the call: both generators are seeded as before the first
\* call, name_stem is supplied if it was not and left out if it was, and every
\* other argument is the same.
Rerun ==
    /\ pc = "done"
    /\ fn \in PlotFns
    /\ run = 1
    /\ run' = 2
    /\ prev' = [subsample |-> subsample, to_plot |-> to_plot, stem_given |-> ~delete_after]
    /\ name_stem' = IF delete_after THEN UserStem ELSE NoStem
    /\ py_random' = seed
    /\ np_random' = seed
    /\ delete_after' = FALSE
    /\ minima' = <<>>
    /\ maxima' = <<>>
    /\ k' = 0
    /\ samples' = <<>>
    /\ subsample' = <<>>
    /\ to_plot' = <<>>
    /\ best_model' = NoModel
    /\ v_vals' = <<>>
    /\ model_params_list' = <<>>
    /\ lowest_per_point' = <<>>
    /\ highest_per_point' = <<>>
    /\ i' = 0
    /\ model' = NoModel
    /\ vFv_interpolated' = <<>>
    /\ calls' = <<>>
    /\ models' = <<>>
    /\ pc' = "plot"
    /\ UNCHANGED <<fn, inputVars, figVars>>

\* ------------------------------------------- get_min_max_per_point on its own
\* the external model's log-frequency grids
ModelGrids == {<<0, 2, 3>>}

FluxValues == {0, 1}

Fluxes(g) == [1..Len(g) -> FluxValues]

\* grids the envelope is asked for: points on, between and outside the model's grid
EnvGrids == {<<>>, <<2>>, <<0, 2, 3>>, <<-1, 1, 2, 4>>, <<3, -2>>, <<1, 5>>}

\* parameter vectors of the lists: NUM_DIM + 1 distinct ones
EnvParams == {[d \in 1..NUM_DIM |-> IF d <= n THEN 1 ELSE 0] : n \in 0..NUM_DIM}

\* the values every variable has while its function has not run
Idle ==
    /\ flat_samples = <<>>
    /\ indices_within_1sigma = <<>>
    /\ min_chi_squared_index = 0
    /\ both = FALSE
    /\ extreme = FALSE
    /\ max_num_lines_to_graph = 0
    /\ return_models = FALSE
    /\ args = <<>>
    /\ interactive = FALSE

\* user_SED_plot.py is not being run
NoScript ==
    /\ boundaries = [default |-> TRUE, limits |-> <<>>]
    /\ eic = FALSE
    /\ components = [cs2 |-> 0, ecs |-> 0]
    /\ accepts_fixed_params = FALSE
    /\ x_lim = NoLimits
    /\ bound = {}
    /\ raised = "none"

Fresh ==
    /\ delete_after = FALSE
    /\ py_random = seed
    /\ np_random = seed
    /\ minima = <<>>
    /\ maxima = <<>>
    /\ k = 0
    /\ samples = <<>>
    /\ subsample = <<>>
    /\ to_plot = <<>>
    /\ best_model = NoModel
    /\ lowest_per_point = <<>>
    /\ highest_per_point = <<>>
    /\ i = 0
    /\ model = NoModel
    /\ vFv_interpolated = <<>>
    /\ calls = <<>>
    /\ models = <<>>
    /\ run = 1
    /\ prev = <<>>
    /\ figures = NoFigures
    /\ current = "none"
    /\ shown = 0
    /\ saved = 0
    /\ pickled = 0
    /\ new_min = Rat(0, 1)
    /\ new_max = Rat(0, 1)
    /\ y_lim = NoLimits
    /\ drew = <<>>
    /\ canvas = <<>>
    /\ NoScript

\* the external model answers the listed vectors freely and is flat elsewhere
ResponsesFor(g, ps, w) ==
    {[x |-> g, y |-> [p \in Vectors(w) |-> IF p \in ps THEN f[p] ELSE [pt \in 1..Len(g) |-> 0]]] :
        f \in [ps -> Fluxes(g)]}

InitEnv ==
    /\ fn = "get_min_max_per_point"
    /\ pc = "env"
    /\ Idle
    /\ seed = 0
    /\ Fresh
    /\ name_stem \in {NoStem, UserStem}
    /\ v_vals \in EnvGrids
    /\ model_params_list \in UNION {[1..n -> EnvParams] : n \in 0..MaxList}
    /\ response \in UNION {ResponsesFor(g, Range(model_params_list), NUM_DIM) : g \in ModelGrids}

NextEnv == EnvInit \/ EnvModel \/ EnvFold \/ EnvReturn

SpecEnv == InitEnv /\ [][NextEnv]_vars

Returned(f) == fn = f /\ pc = "done"

\* the spectrum the n-th run of the loop produced
Produced(n) == make_model(response, model_params_list[n])

\* C1: when get_min_max_per_point has returned, at every grid point j each
\* spectrum interpolated during the call lies between lowest_per_point[j]
\* and highest_per_point[j].
C1_EnvelopeBounds ==
    Returned("get_min_max_per_point") =>
        \A n \in 1..Len(vFv_interpolated) : \A j \in 1..Len(v_vals) :
            /\ lowest_per_point[j] <= vFv_interpolated[n][j]
            /\ vFv_interpolated[n][j] <= highest_per_point[j]

\* two interpolated spectra that cross: each is the lower one somewhere
C1_Witness ==
    /\ Returned("get_min_max_per_point")
    /\ \E n, m \in 1..Len(vFv_interpolated) : \E j, h \in 1..Len(v_vals) :
           /\ vFv_interpolated[n][j] < vFv_interpolated[m][j]
           /\ vFv_interpolated[n][h] > vFv_interpolated[m][h]

\* the interpolated flux at grid point j of every listed vector's spectrum
FluxesAt(j) ==
    {Interpolate(make_model(response, p), v_vals)[j] : p \in Range(model_params_list)}

\* C3: get_min_max_per_point returns one entry per grid point in each array,
\* and for a non-empty list lowest_per_point[j] is the minimum and
\* highest_per_point[j] the maximum of the interpolated flux at j over the
\* spectra of the listed vectors, whatever their order in the list.
C3_EnvelopeIsMinMax ==
    Returned("get_min_max_per_point") =>
        /\ Len(lowest_per_point) = Len(v_vals)
        /\ Len(highest_per_point) = Len(v_vals)
        /\ model_params_list # <<>> =>
               \A j \in 1..Len(v_vals) :
                   /\ lowest_per_point[j] = SetMin(FluxesAt(j))
                   /\ highest_per_point[j] = SetMax(FluxesAt(j))

\* a list whose last spectrum gives neither the minimum nor the maximum somewhere
C3_Witness ==
    /\ Returned("get_min_max_per_point")
    /\ Len(model_params_list) >= 2
    /\ \E j \in 1..Len(v_vals) :
           /\ lowest_per_point[j] < highest_per_point[j]
           /\ vFv_interpolated[Len(vFv_interpolated)][j] # lowest_per_point[j]
    /\ \E j \in 1..Len(v_vals) :
           /\ lowest_per_point[j] < highest_per_point[j]
           /\ vFv_interpolated[Len(vFv_interpolated)][j] # highest_per_point[j]

\* C9: every produced spectrum is interpolated linearly with extrapolation:
\* on one of its own frequency points the value is its flux there, strictly
\* between two adjacent points the value lies between their fluxes, and
\* outside its frequency range the value continues the line of the nearest
\* segment.
C9_LinearInterpolation ==
    pc \in {"env_loop", "done"} =>
        \A n \in 1..Len(vFv_interpolated) : \A j \in 1..Len(v_vals) :
            LET x   == Produced(n).x
                y   == Produced(n).y
                v   == v_vals[j]
                val == vFv_interpolated[n][j]
                last == Len(x)
            IN  /\ \A a \in 1..last : v = x[a] => val = Den(x) * y[a]
                /\ \A a \in 1..(last - 1) :
                      (x[a] < v /\ v < x[a + 1]) =>
                          /\ val >= Den(x) * SetMin({y[a], y[a + 1]})
                          /\ val <= Den(x) * SetMax({y[a], y[a + 1]})
                /\ v < x[1] =>
                      (val - Den(x) * y[1]) * (x[2] - x[1])
                          = Den(x) * (y[2] - y[1]) * (v - x[1])
                /\ v > x[last] =>
                      (val - Den(x) * y[last]) * (x[last] - x[last - 1])
                          = Den(x) * (y[last] - y[last - 1]) * (v - x[last])

\* a spectrum with a slope at both ends, interpolated on, between, below and
\* above its own points
C9_Witness ==
    /\ Returned("get_min_max_per_point")
    /\ \E n \in 1..Len(vFv_interpolated) :
          LET x == Produced(n).x
              y == Produced(n).y
          IN  /\ y[1] # y[2]
              /\ y[Len(x)] # y[Len(x) - 1]
              /\ \E j \in 1..Len(v_vals) : v_vals[j] < x[1]
              /\ \E j \in 1..Len(v_vals) : v_vals[j] > x[Len(x)]
              /\ \E j \in 1..Len(v_vals) : \E a \in 1..Len(x) : v_vals[j] = x[a]
              /\ \E j \in 1..Len(v_vals) : \E a \in 1..(Len(x) - 1) :
                     x[a] < v_vals[j] /\ v_vals[j] < x[a + 1]

\* ---------------------------------------- get_params_1sigma_ranges on its own
\* injective sequences over S: row numbers in any iteration order
RECURSIVE Orders(_)
Orders(S) ==
    {<<>>} \cup UNION {{<<n>> \o t : t \in Orders(S \ {n})} : n \in S}

\* the samples of the function's docstring (lines 629-631) and the result it states
DocSamples == <<(<<0, 1, 2>>), (<<5, 2, 1>>), (<<4, 6, 1>>), (<<3, 2, 0>>)>>

DocMinima == <<(<<0, 1, 2>>), (<<0, 1, 2>>), (<<3, 2, 0>>)>>

DocMaxima == <<(<<5, 2, 1>>), (<<4, 6, 1>>), (<<0, 1, 2>>)>>

\* sample arrays of w columns
RangeArrays(w) == [1..NumSamples -> Vectors(w)]

InitRanges ==
    /\ fn = "get_params_1sigma_ranges"
    /\ pc = "ranges"
    /\ \/ /\ flat_samples \in UNION {RangeArrays(w) : w \in (NUM_DIM - 1)..(NUM_DIM + 1)}
          /\ indices_within_1sigma \in Orders(1..NumSamples)
       \/ /\ flat_samples = DocSamples
          /\ indices_within_1sigma = <<1, 2, 3, 4>>
    /\ min_chi_squared_index = 0
    /\ both = FALSE
    /\ extreme = FALSE
    /\ max_num_lines_to_graph = 0
    /\ return_models = FALSE
    /\ args = <<>>
    /\ interactive = FALSE
    /\ seed = 0
    /\ Fresh
    /\ name_stem = NoStem
    /\ v_vals = <<>>
    /\ model_params_list = <<>>
    /\ response = [x |-> <<>>, y |-> <<>>]

NextRanges == RangesInit \/ RangesStep \/ RangesReturn

SpecRanges == InitRanges /\ [][NextRanges]_vars

\* the function has returned or raised
Ended(f) == fn = f /\ pc \in {"done", "error"}

\* the vectors of the 1-sigma set, in iteration order
Sigma(fs, idx) == [pos \in 1..Len(idx) |-> fs[idx[pos]]]

\* the loop of lines 643-651 run to its end on fs and idx
RECURSIVE RangesFrom(_, _, _, _)
RangesFrom(fs, idx, n, acc) ==
    IF n > Len(idx) THEN acc
    ELSE RangesFrom(fs, idx, n + 1,
                    [minima |-> StepMinima(acc.minima, RowAt(fs, idx, n)),
                     maxima |-> StepMaxima(acc.maxima, RowAt(fs, idx, n))])

\* C2: for a non-empty indices_within_1sigma and samples of NUM_DIM
\* parameters, get_params_1sigma_ranges returns NUM_DIM minima and NUM_DIM
\* maxima; minima[d] (maxima[d]) is a vector of the 1-sigma set whose d-th
\* component is the minimum (maximum) of component d over the set; and the
\* result is the same for every array that has the same rows at the indices.
C2_RangesAreExtrema ==
    (/\ Ended("get_params_1sigma_ranges")
     /\ indices_within_1sigma # <<>>
     /\ Width(flat_samples) = NUM_DIM) =>
        LET set == Range(Sigma(flat_samples, indices_within_1sigma))
        IN  /\ pc = "done"
            /\ Len(minima) = NUM_DIM
            /\ Len(maxima) = NUM_DIM
            /\ \A d \in 1..NUM_DIM :
                  /\ minima[d] \in set
                  /\ maxima[d] \in set
                  /\ minima[d][d] = SetMin({v[d] : v \in set})
                  /\ maxima[d][d] = SetMax({v[d] : v \in set})
            /\ \A other \in RangeArrays(NUM_DIM) :
                  Sigma(other, indices_within_1sigma)
                      = Sigma(flat_samples, indices_within_1sigma) =>
                      LET first == FirstOfSet(other, indices_within_1sigma)
                          start == [d \in 1..NUM_DIM |-> first]
                      IN  RangesFrom(other, indices_within_1sigma, 1,
                                     [minima |-> start, maxima |-> start])
                              = [minima |-> minima, maxima |-> maxima]

\* a proper subset of the rows, the first row of the chain outside it and
\* below the minimum of a parameter, and a parameter whose minimum and maximum
\* differ over the set
C2_Witness ==
    /\ Returned("get_params_1sigma_ranges")
    /\ Width(flat_samples) = NUM_DIM
    /\ Len(indices_within_1sigma) = 2
    /\ 1 \notin Range(indices_within_1sigma)
    /\ \E d \in 1..NUM_DIM : flat_samples[1][d] < minima[d][d]
    /\ \E d \in 1..NUM_DIM : minima[d][d] < maxima[d][d]

\* C4: when several vectors of the 1-sigma set share the minimal (maximal)
\* value of parameter d, minima[d] (maxima[d]) is the one met first in the
\* iteration order of indices_within_1sigma.
C4_FirstOnTies ==
    (/\ Returned("get_params_1sigma_ranges")
     /\ Width(flat_samples) = NUM_DIM) =>
        LET sig == Sigma(flat_samples, indices_within_1sigma)
        IN  \A d \in 1..NUM_DIM :
              LET lo == SetMin({sig[n][d] : n \in DOMAIN sig})
                  hi == SetMax({sig[n][d] : n \in DOMAIN sig})
              IN  /\ minima[d] = sig[SetMin({n \in DOMAIN sig : sig[n][d] = lo})]
                  /\ maxima[d] = sig[SetMin({n \in DOMAIN sig : sig[n][d] = hi})]

\* two different vectors tie for a minimum and two for a maximum, and the
\* iteration order is not the row order
C4_Witness ==
    /\ Returned("get_params_1sigma_ranges")
    /\ Width(flat_samples) = NUM_DIM
    /\ Len(indices_within_1sigma) >= 2
    /\ indices_within_1sigma[1] > indices_within_1sigma[2]
    /\ LET sig == Sigma(flat_samples, indices_within_1sigma)
       IN  /\ \E d \in 1..NUM_DIM : \E n \in DOMAIN sig :
                 sig[n][d] = minima[d][d] /\ sig[n] # minima[d]
           /\ \E d \in 1..NUM_DIM : \E n \in DOMAIN sig :
                 sig[n][d] = maxima[d][d] /\ sig[n] # maxima[d]

\* C10 as claimed: for samples of w components the function returns w minima
\* and w maxima, and for the docstring's samples the result the docstring states.
C10_OnePerComponent ==
    (Ended("get_params_1sigma_ranges") /\ indices_within_1sigma # <<>>) =>
        /\ pc = "done"
        /\ Len(minima) = Width(flat_samples)
        /\ Len(maxima) = Width(flat_samples)
        /\ flat_samples = DocSamples => (minima = DocMinima /\ maxima = DocMaxima)

\* ------------------------------------------------ the plotting functions
\* row numbers in ascending order, as np.where gives them
RECURSIVE Ascending(_)
Ascending(S) ==
    IF S = {} THEN <<>> ELSE <<SetMin(S)>> \o Ascending(S \ {SetMin(S)})

\* an external model on the grid g: the flux follows the parameters
PlotResponse(g) ==
    [x |-> g, y |-> [p \in Vectors(NUM_DIM) |-> <<p[1], p[NUM_DIM], 1 - p[1]>>]]

\* the chain and its 1-sigma set: any vectors at the rows of the set (the
\* rows outside it are all zero)
InitChain ==
    \E S \in (SUBSET (1..NumSamples)) \ {{}} :
        /\ indices_within_1sigma = Ascending(S)
        /\ flat_samples \in
              {[row \in 1..NumSamples |-> IF row \in S THEN f[row] ELSE [dim \in 1..NUM_DIM |-> 0]] :
                  f \in [S -> Vectors(NUM_DIM)]}

\* the data points, and the arguments of plot_1sigma and plot_1sigma_plots
\* that are left at their defaults (lines 364-370 / 481-489)
PlotDefaults ==
    [v_data |-> <<1, 2>>, vFv_data |-> <<1, 3>>, err_data |-> <<1, 1>>,
     show |-> TRUE, save |-> FALSE, serialize |-> FALSE, folder |-> NoFolder,
     lower_adjust_multiplier |-> None, upper_adjust_multiplier |-> Mult(51, 50)]

InitCommon ==
    /\ fn \in PlotFns
    /\ pc = "plot"
    /\ InitChain
    /\ max_num_lines_to_graph \in 1..MaxLines
    /\ return_models \in (IF fn = "plot_1sigma_plots" THEN BOOLEAN ELSE {FALSE})
    /\ args = PlotDefaults
    /\ interactive = FALSE
    /\ Fresh
    /\ name_stem \in {NoStem, UserStem}
    /\ v_vals = <<>>
    /\ model_params_list = <<>>
    /\ response \in {PlotResponse(g) : g \in ModelGrids}

Init ==
    /\ seed = 0
    /\ InitCommon
    /\ min_chi_squared_index \in Range(indices_within_1sigma)
    /\ both \in BOOLEAN
    /\ extreme \in BOOLEAN

PlotNext ==
    \/ PlotStart \/ PlotBest \/ SelectExtreme \/ SelectRandom
    \/ RangesInit \/ RangesStep \/ RangesReturn
    \/ PlotEnvelope \/ EnvInit \/ EnvModel \/ EnvFold \/ EnvReturn
    \/ PlotsStem \/ PlotsModel \/ PlotsEnd
    \/ PlotFinish

Next == PlotNext

Spec == Init /\ [][Next]_vars

\* the calls that draw a random subsample, made twice from one seed
InitSubsample ==
    /\ seed \in Seeds
    /\ InitCommon
    /\ min_chi_squared_index = indices_within_1sigma[1]
    /\ both \in BOOLEAN
    /\ extreme \in BOOLEAN
    /\ ~extreme \/ both

NextSubsample == PlotNext \/ Rerun

SpecSubsample == InitSubsample /\ [][NextSubsample]_vars

\* the selection of lines 413-424 / 532-543 is over
Selected == fn \in PlotFns /\ pc \in {"envelope", "env", "env_loop", "lines", "lines_loop",
                                       "finish", "done"}

\* the distinct parameter vectors of the 1-sigma set
SigmaSet == {flat_samples[indices_within_1sigma[n]] : n \in DOMAIN indices_within_1sigma}

\* C5: the random subsample of plot_1sigma and plot_1sigma_plots has
\* min(U, max_num_lines_to_graph) rows, U the number of distinct vectors of
\* the 1-sigma set; every row is a vector of the set, none occurs twice, and
\* with U <= max_num_lines_to_graph the subsample is all U vectors.
C5_SubsampleRows ==
    (Selected /\ (~extreme \/ both)) =>
        LET U == Cardinality(SigmaSet)
        IN  /\ Len(subsample) = IF U < max_num_lines_to_graph THEN U
                                ELSE max_num_lines_to_graph
            /\ \A m \in DOMAIN subsample : subsample[m] \in SigmaSet
            /\ \A m, n \in DOMAIN subsample : m # n => subsample[m] # subsample[n]
            /\ U <= max_num_lines_to_graph => Range(subsample) = SigmaSet

\* a 1-sigma set with a repeated vector and more distinct vectors than lines
C5_Witness ==
    /\ Selected
    /\ pc = "done"
    /\ Cardinality(SigmaSet) < Len(indices_within_1sigma)
    /\ Cardinality(SigmaSet) > max_num_lines_to_graph
    /\ Len(subsample) = max_num_lines_to_graph

\* C6: the call repeated from the same seed with the same flat_samples and
\* indices_within_1sigma selects the same random subsample as the first call,
\* one of the two calls being given a name_stem and the other none.
C6_SameSeedSameSubsample ==
    (run = 2 /\ Selected) => subsample = prev.subsample

\* the second call has drawn fewer rows than there are distinct vectors, and
\* the first call drew its name stem from the generator
C6_Witness ==
    /\ run = 2
    /\ Selected
    /\ pc = "done"
    /\ ~prev.stem_given
    /\ subsample # <<>>
    /\ Len(subsample) < Len(samples)
    /\ subsample # SubSeq(samples, 1, Len(subsample))

\* mins and maxs are vectors of the 1-sigma set extremal in each parameter
Extremal(mins, maxs) ==
    /\ Len(mins) = NUM_DIM
    /\ Len(maxs) = NUM_DIM
    /\ \A d \in 1..NUM_DIM :
          /\ mins[d] \in SigmaSet
          /\ maxs[d] \in SigmaSet
          /\ \A v \in SigmaSet : mins[d][d] <= v[d] /\ v[d] <= maxs[d][d]

\* C7: the list that is modelled is, with extreme and not both, the
\* 2 * NUM_DIM extremal vectors, minima before maxima; with neither, the
\* random subsample; with both (extreme or not), the extremal vectors
\* followed by the random subsample.
C7_SelectedList ==
    Selected =>
        /\ (extreme /\ ~both) =>
               /\ to_plot = minima \o maxima
               /\ Len(to_plot) = 2 * NUM_DIM
               /\ Extremal(minima, maxima)
               /\ subsample = <<>>
        /\ (~extreme /\ ~both) =>
               /\ to_plot = subsample
               /\ Len(to_plot) = IF Cardinality(SigmaSet) < max_num_lines_to_graph
                                 THEN Cardinality(SigmaSet) ELSE max_num_lines_to_graph
               /\ Range(to_plot) \subseteq SigmaSet
               /\ minima = <<>>
        /\ both =>
               /\ to_plot = (minima \o maxima) \o subsample
               /\ Extremal(minima, maxima)
               /\ Len(to_plot) = 2 * NUM_DIM
                      + (IF Cardinality(SigmaSet) < max_num_lines_to_graph
                         THEN Cardinality(SigmaSet) ELSE max_num_lines_to_graph)
               /\ Range(subsample) \subseteq SigmaSet

\* both: distinct extremal vectors followed by a subsample of more than one row
C7_Witness ==
    /\ Selected
    /\ pc = "done"
    /\ both
    /\ ~extreme
    /\ minima[1] # maxima[1]
    /\ Len(subsample) > 1
    /\ Len(to_plot) = 2 * NUM_DIM + Len(subsample)

\* C8: in one plot_1sigma call the external model is run first for
\* flat_samples[min_chi_squared_index] and then once for each entry of the
\* selected list, in list order; each of these spectra is interpolated and
\* folded into the envelope before the next run starts.
C8_ModelRunsInOrder ==
    fn = "plot_1sigma" =>
        LET best   == <<flat_samples[min_chi_squared_index]>>
            folded == Len(vFv_interpolated)
        IN  /\ pc \in {"plot", "best"} => calls = <<>>
            /\ pc \in {"select_extreme", "ranges", "ranges_loop", "select_random",
                        "envelope", "env"} => calls = best
            /\ pc = "env_loop" =>
                  /\ calls = best \o SubSeq(to_plot, 1, Len(calls) - 1)
                  /\ model = NoModel => folded = Len(calls) - 1
                  /\ model # NoModel =>
                        /\ folded = Len(calls) - 2
                        /\ model = make_model(response, calls[Len(calls)])
            /\ pc \in {"finish", "done"} =>
                  /\ calls = best \o to_plot
                  /\ folded = Len(to_plot)
            /\ pc \in {"env_loop", "finish", "done"} =>
                  \A n \in 1..folded :
                      /\ vFv_interpolated[n]
                            = Interpolate(make_model(response, to_plot[n]), v_vals)
                      /\ \A j \in 1..Len(v_vals) :
                            /\ lowest_per_point[j] <= vFv_interpolated[n][j]
                            /\ vFv_interpolated[n][j] <= highest_per_point[j]

\* a finished call whose list has at least three entries, not all the same,
\* the first of them not the best fit
C8_Witness ==
    /\ fn = "plot_1sigma"
    /\ pc = "done"
    /\ Len(to_plot) >= 3
    /\ to_plot[1] # to_plot[Len(to_plot)]
    /\ to_plot[1] # flat_samples[min_chi_squared_index]
    /\ Len(calls) = Len(to_plot) + 1

\* ------------------------------------------------- a session of plotting calls
\* model spectra, in log scale
Spectra == {[x |-> <<0, 1>>, y |-> <<1, 0>>], [x |-> <<0, 2>>, y |-> <<2, 2>>]}

\* pairs of multiplier arguments: both left out, or both given
Multipliers ==
    {[lower |-> None, upper |-> None], [lower |-> Mult(2, 1), upper |-> Mult(3, 2)]}

\* arguments of plot_model (lines 43-45)
ModelArgs ==
    {[model |-> m, line |-> l, points |-> p, point_style |-> ".", line_style |-> "-",
      clear_plot |-> c, save |-> sv, show |-> sh, log |-> lg] :
        m \in Spectra, l \in BOOLEAN, p \in BOOLEAN, c \in BOOLEAN,
        sv \in BOOLEAN, sh \in BOOLEAN, lg \in BOOLEAN}

\* arguments of plot_data (lines 164-166)
DataArgs ==
    {[v_data |-> <<1, 10>>, vFv_data |-> <<2, 4>>, err_data |-> <<1, 1>>,
      adjust_scale |-> adj, lower_adjust_multiplier |-> mu.lower,
      upper_adjust_multiplier |-> mu.upper, clear_plot |-> c, save |-> sv, show |-> sh] :
        adj \in BOOLEAN, mu \in Multipliers, c \in BOOLEAN, sv \in BOOLEAN, sh \in BOOLEAN}

\* arguments of plot_model_and_data (lines 100-103)
ModelAndDataArgs ==
    {[model |-> m, v_data |-> <<1, 10>>, vFv_data |-> <<2, 4>>, err_data |-> <<1, 1>>,
      adjust_scale |-> adj, line |-> l, points |-> TRUE, point_style |-> ".",
      line_style |-> "-", lower_adjust_multiplier |-> mu.lower,
      upper_adjust_multiplier |-> mu.upper, clear_plot |-> c, save |-> sv, show |-> sh,
      log |-> TRUE] :
        m \in Spectra, adj \in BOOLEAN, l \in BOOLEAN, mu \in Multipliers, c \in BOOLEAN,
        sv \in BOOLEAN, sh \in BOOLEAN}

Folders == {NoFolder, Folder(<<>>), Folder(<<"o", "u", "t">>), Folder(<<"o", "u", "t", "/">>)}

\* arguments of plot_1sigma and plot_1sigma_plots that bear on the output
SigmaArgs ==
    {[PlotDefaults EXCEPT !.show = sh, !.save = sv, !.serialize = se, !.folder = fo] :
        sh \in BOOLEAN, sv \in BOOLEAN, se \in BOOLEAN, fo \in Folders}

SimpleFns == {"plot_model", "plot_data", "plot_model_and_data"}

\* the previous call, if any, has returned and the session goes on
CanCall == pc \in {"idle", "done"} /\ run < MaxCalls

\* what a call of one of the three simple functions leaves alone
SimpleUnchanged ==
    UNCHANGED <<chainVars, both, extreme, return_models, name_stem, delete_after, rngVars,
                rangeVars, selVars, envVars, calls, models, prev>>

\* plot_model, lines 43-97, called and run to its return
CallPlotModel ==
    /\ CanCall
    /\ \E a \in ModelArgs :
          /\ args' = a
          /\ SetPlt(plot_model(Begin(Plt), a, interactive))
    /\ fn' = "plot_model"
    /\ pc' = "done"
    /\ run' = run + 1
    /\ SimpleUnchanged

\* plot_data, lines 164-222, called and run to its return
CallPlotData ==
    /\ CanCall
    /\ \E a \in DataArgs :
          /\ args' = a
          /\ SetPlt(plot_data(Begin(Plt), a, interactive))
    /\ fn' = "plot_data"
    /\ pc' = "done"
    /\ run' = run + 1
    /\ SimpleUnchanged

\* plot_model_and_data, lines 100-161, called and run to its return
CallPlotModelAndData ==
    /\ CanCall
    /\ \E a \in ModelAndDataArgs :
          /\ args' = a
          /\ SetPlt(plot_model_and_data(Begin(Plt), a, interactive))
    /\ fn' = "plot_model_and_data"
    /\ pc' = "done"
    /\ run' = run + 1
    /\ SimpleUnchanged

\* plot_1sigma or plot_1sigma_plots is called (lines 364-370 / 481-489)
CallPlot1Sigma ==
    /\ CanCall
    /\ fn' \in PlotFns
    /\ args' \in SigmaArgs
    /\ extreme' \in BOOLEAN
    /\ both' = FALSE
    /\ return_models' = FALSE
    /\ name_stem' = NoStem
    /\ delete_after' = FALSE
    /\ minima' = <<>>
    /\ maxima' = <<>>
    /\ k' = 0
    /\ samples' = <<>>
    /\ subsample' = <<>>
    /\ to_plot' = <<>>
    /\ best_model' = NoModel
    /\ v_vals' = <<>>
    /\ model_params_list' = <<>>
    /\ lowest_per_point' = <<>>
    /\ highest_per_point' = <<>>
    /\ i' = 0
    /\ model' = NoModel
    /\ vFv_interpolated' = <<>>
    /\ calls' = <<>>
    /\ models' = <<>>
    /\ SetPlt(Begin(Plt))
    /\ pc' = "plot"
    /\ run' = run + 1
    /\ UNCHANGED <<chainVars, rngVars, prev>>

\* a process that has imported blazar_plots and made no call yet; the chain
\* its calls are given has two vectors within 1 sigma
InitFigure ==
    /\ fn = "none"
    /\ pc = "idle"
    /\ flat_samples = <<(<<0, 1>>), (<<1, 0>>)>>
    /\ indices_within_1sigma = <<1, 2>>
    /\ min_chi_squared_index = 1
    /\ max_num_lines_to_graph = MaxLines
    /\ response \in {PlotResponse(g) : g \in ModelGrids}
    /\ seed = 0
    /\ interactive \in BOOLEAN
    /\ both = FALSE
    /\ extreme = FALSE
    /\ return_models = FALSE
    /\ args = <<>>
    /\ name_stem = NoStem
    /\ v_vals = <<>>
    /\ model_params_list = <<>>
    /\ delete_after = FALSE
    /\ py_random = seed
    /\ np_random = seed
    /\ minima = <<>>
    /\ maxima = <<>>
    /\ k = 0
    /\ samples = <<>>
    /\ subsample = <<>>
    /\ to_plot = <<>>
    /\ best_model = NoModel
    /\ lowest_per_point = <<>>
    /\ highest_per_point = <<>>
    /\ i = 0
    /\ model = NoModel
    /\ vFv_interpolated = <<>>
    /\ calls = <<>>
    /\ models = <<>>
    /\ run = 0
    /\ prev = <<>>
    /\ figures = NoFigures
    /\ current = "none"
    /\ shown = 0
    /\ saved = 0
    /\ pickled = 0
    /\ new_min = Rat(0, 1)
    /\ new_max = Rat(0, 1)
    /\ y_lim = NoLimits
    /\ drew = <<>>
    /\ canvas = <<>>
    /\ NoScript

NextFigure ==
    \/ CallPlotModel \/ CallPlotData \/ CallPlotModelAndData \/ CallPlot1Sigma
    \/ PlotNext

SpecFigure == InitFigure /\ [][NextFigure]_vars

\* the number of times a call with this flag is to show, or to save, the figure
Once(flag) == IF flag THEN 1 ELSE 0

\* C11, as claimed: one call of plot_model, plot_data, plot_model_and_data,
\* plot_1sigma or plot_1sigma_plots shows the figure once if show is true and
\* never if it is false, and saves it once if save is true and never if it is
\* false: during the call it has shown and saved at most that often, and when
\* the call is over exactly that often.
C11_ShowAndSaveOnce ==
    fn \in SimpleFns \cup PlotFns =>
        /\ shown <= Once(args.show)
        /\ saved <= Once(args.save)
        /\ pc \in {"done", "error"} =>
              /\ shown = Once(args.show)
              /\ saved = Once(args.save)

\* C12, as claimed: when clear_plot is true, plot_model, plot_data and
\* plot_model_and_data clear the plot before they draw, so that after the call
\* the figure, and what the call saved or showed of it, holds only what this
\* call drew.
C12_ClearPlotClears ==
    (fn \in SimpleFns /\ pc = "done" /\ args.clear_plot) =>
        /\ current # "none" => figures[current] = drew
        /\ (args.save \/ args.show) => canvas = drew

\* C13, as claimed: plot_data or plot_model_and_data called with adjust_scale
\* and without multipliers sets the y limits that the multiplier 1.1 gives,
\* below and above the data.
C13_DefaultMultiplier ==
    (/\ fn \in {"plot_data", "plot_model_and_data"}
     /\ pc = "done"
     /\ args.adjust_scale
     /\ args.lower_adjust_multiplier = None
     /\ args.upper_adjust_multiplier = None) =>
        LET documented == scale_to_values(args.vFv_data, Mult(11, 10), Mult(11, 10))
        IN  /\ y_lim.set
            /\ Same(y_lim.new_min, documented.new_min)
            /\ Same(y_lim.new_max, documented.new_max)

\* ------------------------------------------------- scale_to_values on its own
DataValues == -2..2

\* multiplier arguments: left out, below 1, 1 and above 1
MultiplierArgs == {None, Mult(1, 2), Mult(1, 1), Mult(3, 2), Mult(2, 1)}

InitScale ==
    /\ fn = "scale_to_values"
    /\ pc = "scale"
    /\ args \in [values : UNION {[1..n -> DataValues] : n \in 0..MaxValues},
                 upper_adjust_multiplier : MultiplierArgs,
                 lower_adjust_multiplier : MultiplierArgs]
    /\ interactive = FALSE
    /\ flat_samples = <<>>
    /\ indices_within_1sigma = <<>>
    /\ min_chi_squared_index = 0
    /\ both = FALSE
    /\ extreme = FALSE
    /\ max_num_lines_to_graph = 0
    /\ return_models = FALSE
    /\ seed = 0
    /\ Fresh
    /\ name_stem = NoStem
    /\ v_vals = <<>>
    /\ model_params_list = <<>>
    /\ response = [x |-> <<>>, y |-> <<>>]

NextScale == ScaleCall

SpecScale == InitScale /\ [][NextScale]_vars

\* the multiplier in effect is at least 1
AtLeastOne(m) == OrDefault(m).n >= OrDefault(m).d

\* C14: for non-empty values and multipliers of at least 1, scale_to_values
\* returns new_min <= min(values) <= max(values) <= new_max, whatever the
\* signs of the smallest and the largest value.
C14_ScaleContainsData ==
    (/\ fn = "scale_to_values"
     /\ pc # "scale"
     /\ args.values # <<>>
     /\ AtLeastOne(args.lower_adjust_multiplier)
     /\ AtLeastOne(args.upper_adjust_multiplier)) =>
        LET data_min == SetMin(Range(args.values))
            data_max == SetMax(Range(args.values))
        IN  /\ pc = "done"
            /\ Leq(new_min, Rat(data_min, 1))
            /\ data_min <= data_max
            /\ Leq(Rat(data_max, 1), new_max)

\* a negative smallest and a positive largest value, scaled by multipliers
\* above 1 to limits strictly outside the data
C14_Witness ==
    /\ fn = "scale_to_values"
    /\ pc = "done"
    /\ SetMin(Range(args.values)) < 0
    /\ SetMax(Range(args.values)) > 0
    /\ args.lower_adjust_multiplier = Mult(3, 2)
    /\ args.upper_adjust_multiplier = None
    /\ ~Leq(Rat(SetMin(Range(args.values)), 1), new_min)
    /\ ~Leq(new_max, Rat(SetMax(Range(args.values)), 1))

\* ------------------------------------------------------------ user_SED_plot.py
\* m * 10^e, for frequencies too large for an integer
Sci(m, e) == [m |-> m, e |-> e]

Limits(lo, hi) == [set |-> TRUE, new_min |-> lo, new_max |-> hi]

\* line 32 as shipped, and line 34 with values filled in
DefaultBoundaries == [default |-> TRUE, limits |-> <<>>]

UserBoundaries ==
    {[default |-> FALSE, limits |-> <<Sci(1, 9), Sci(1, 27), Rat(1, 10), Rat(50, 1)>>],
     [default |-> FALSE, limits |-> <<Sci(5, 8), Sci(1, 28), Rat(3, 1), Rat(4, 1)>>]}

\* what no step of the script changes
scriptConst ==
    <<fn, flat_samples, indices_within_1sigma, min_chi_squared_index, both, extreme,
      max_num_lines_to_graph, return_models, response, seed, args, interactive,
      boundaries, eic, components, accepts_fixed_params, delete_after, rngVars, k,
      samples, subsample, model_params_list, i, model, vFv_interpolated, models, run, prev>>

\* get_min_max_per_point run to its end on the list, from the n-th entry on
RECURSIVE EnvelopeFrom(_, _, _, _, _)
EnvelopeFrom(resp, list, vs, n, acc) ==
    IF n >= Len(list) THEN acc
    ELSE EnvelopeFrom(resp, list, vs, n + 1,
                      Fold(acc.lowest, acc.highest,
                           Interpolate(make_model(resp, ParamsAt(list, n)), vs)))

\* lines 84-92: the best model is made under the name stem "plot"
ScriptBest ==
    /\ pc = "line 84"
    /\ name_stem' = [kind |-> "plot", bits |-> 0]
    /\ best_model' = make_model(response, flat_samples[min_chi_squared_index])
    /\ calls' = Append(calls, flat_samples[min_chi_squared_index])
    /\ pc' = "line 96"
    /\ UNCHANGED <<scriptConst, minima, maxima, to_plot, v_vals, lowest_per_point,
                   highest_per_point, figVars, x_lim, bound, raised>>

\* lines 96-98: get_params_1sigma_ranges is given fixed_params, a keyword the
\* function of blazar_plots.py line 625 does not have
ScriptRanges ==
    /\ pc = "line 96"
    /\ IF ~accepts_fixed_params
       THEN /\ raised' = "TypeError"
            /\ pc' = "error"
            /\ UNCHANGED <<minima, maxima, to_plot>>
       ELSE LET first == FirstOfSet(flat_samples, indices_within_1sigma)
                start == [dim \in 1..NUM_DIM |-> first]
                r     == RangesFrom(flat_samples, indices_within_1sigma, 1,
                                    [minima |-> start, maxima |-> start])
            IN  /\ minima' = r.minima
                /\ maxima' = r.maxima
                /\ to_plot' = Concatenate(r.minima, r.maxima)
                /\ pc' = "line 99"
                /\ UNCHANGED raised
    /\ UNCHANGED <<scriptConst, name_stem, best_model, calls, v_vals, lowest_per_point,
                   highest_per_point, figVars, x_lim, bound>>

\* lines 99-104: the envelope of the extremal models on the best model's grid
ScriptEnvelope ==
    /\ pc = "line 99"
    /\ LET logv == best_model.x
           env  == EnvelopeFrom(response, to_plot, logv, 0,
                                [lowest  |-> [pt \in 1..Len(logv) |-> Inf],
                                 highest |-> [pt \in 1..Len(logv) |-> -Inf]])
       IN  /\ v_vals' = logv
           /\ lowest_per_point' = env.lowest
           /\ highest_per_point' = env.highest
    /\ calls' = calls \o to_plot
    /\ pc' = "line 107"
    /\ UNCHANGED <<scriptConst, name_stem, best_model, minima, maxima, to_plot, figVars,
                   x_lim, bound, raised>>

\* lines 107-141: a new figure with the envelope (kept as exponents) and the
\* best model; the model is run again and the component files are read
ScriptFigure ==
    /\ pc = "line 107"
    /\ SetPlt(PltDraw(PltDraw(PltFigure(Begin(Plt), "Figure 1"),
                              Artist("fill_between", Power10(v_vals), lowest_per_point,
                                     highest_per_point)),
                      Artist("plot", Power10(best_model.x), Power10(best_model.y),
                             "Best model")))
    /\ calls' = Append(calls, flat_samples[min_chi_squared_index])
    /\ pc' = "line 143"
    /\ UNCHANGED <<scriptConst, name_stem, best_model, minima, maxima, to_plot, v_vals,
                   lowest_per_point, highest_per_point, x_lim, bound, raised>>

\* lines 143-149: the axis limits; new_min and new_max are bound only when
\* boundaries is "default"
ScriptLimits ==
    /\ pc = "line 143"
    /\ IF boundaries.default
       THEN LET r == scale_to_values(args.vFv_data, Mult(15, 1), Mult(20, 1))
            IN  /\ x_lim' = Limits(Sci(5, 8), Sci(1, 28))
                /\ SetPlt(PltYlim([Plt EXCEPT !.new_min = r.new_min,
                                              !.new_max = r.new_max],
                                  r.new_min, r.new_max))
                /\ bound' = bound \cup {"new_min", "new_max"}
       ELSE /\ x_lim' = Limits(boundaries.limits[1], boundaries.limits[2])
            /\ SetPlt(PltYlim(Plt, boundaries.limits[3], boundaries.limits[4]))
            /\ UNCHANGED bound
    /\ pc' = "line 151"
    /\ UNCHANGED <<scriptConst, name_stem, best_model, calls, minima, maxima, to_plot,
                   v_vals, lowest_per_point, highest_per_point, raised>>

\* lines 151-154: the synchrotron and self-Compton curves, and the second
\* order curve if its peak is above new_min; reading a name that is not bound
\* raises NameError
ScriptComponents ==
    /\ pc = "line 151"
    /\ LET s1 == PltDraw(PltDraw(Plt, Artist("plot", <<>>, <<>>, "Synchrotron")),
                         Artist("plot", <<>>, <<>>, "Self Compton"))
       IN  IF "new_min" \notin bound
           THEN /\ SetPlt(s1)
                /\ raised' = "NameError"
                /\ pc' = "error"
           ELSE /\ SetPlt(IF ~Leq(Rat(components.cs2, 1), new_min)
                          THEN PltDraw(s1, Artist("plot", <<>>, <<components.cs2>>,
                                                  "2nd Order SC"))
                          ELSE s1)
                /\ pc' = "line 157"
                /\ UNCHANGED raised
    /\ UNCHANGED <<scriptConst, name_stem, best_model, calls, minima, maxima, to_plot,
                   v_vals, lowest_per_point, highest_per_point, x_lim, bound>>

\* lines 157-172: with eic, the external Compton curve if its peak is above
\* new_min, and the nucleus
ScriptEic ==
    /\ pc = "line 157"
    /\ IF ~eic
       THEN /\ UNCHANGED figVars
            /\ pc' = "line 177"
            /\ UNCHANGED raised
       ELSE IF "new_min" \notin bound
       THEN /\ UNCHANGED figVars
            /\ raised' = "NameError"
            /\ pc' = "error"
       ELSE /\ SetPlt(PltDraw(IF ~Leq(Rat(components.ecs, 1), new_min)
                              THEN PltDraw(Plt, Artist("plot", <<>>, <<components.ecs>>,
                                                       "EIC"))
                              ELSE Plt,
                              Artist("plot", <<>>, <<>>, "nucleus")))
            /\ pc' = "line 177"
            /\ UNCHANGED raised
    /\ UNCHANGED <<scriptConst, name_stem, best_model, calls, minima, maxima, to_plot,
                   v_vals, lowest_per_point, highest_per_point, x_lim, bound>>

\* lines 177-300: the data with its error bars (drawn per instrument; one
\* artist here), the legend and the residual panel
ScriptData ==
    /\ pc = "line 177"
    /\ SetPlt(PltDraw(Plt, Artist("errorbar", args.v_data, args.vFv_data, args.err_data)))
    /\ pc' = "line 302"
    /\ UNCHANGED <<scriptConst, name_stem, best_model, calls, minima, maxima, to_plot,
                   v_vals, lowest_per_point, highest_per_point, x_lim, bound, raised>>

\* lines 302-305: the figure is saved
ScriptSave ==
    /\ pc = "line 302"
    /\ SetPlt(PltSavefig(Plt))
    /\ pc' = "done"
    /\ UNCHANGED <<scriptConst, name_stem, best_model, calls, minima, maxima, to_plot,
                   v_vals, lowest_per_point, highest_per_point, x_lim, bound, raised>>

\* the script after line 82: the chain, its best row and its 1-sigma rows are
\* read; boundaries is as shipped or edited as line 34 says
InitScript ==
    /\ fn = "user_SED_plot"
    /\ pc = "line 84"
    /\ InitChain
    /\ min_chi_squared_index \in Range(indices_within_1sigma)
    /\ response \in {PlotResponse(g) : g \in ModelGrids}
    /\ args = [v_data |-> <<1, 10>>, vFv_data |-> <<2, 4>>, err_data |-> <<1, 1>>]
    /\ boundaries \in {DefaultBoundaries} \cup UserBoundaries
    /\ eic \in BOOLEAN
    /\ components \in [cs2 : {0, 1}, ecs : {0, 1}]
    /\ accepts_fixed_params \in BOOLEAN
    /\ x_lim = NoLimits
    /\ bound = {}
    /\ raised = "none"
    /\ interactive = FALSE
    /\ both = FALSE
    /\ extreme = TRUE
    /\ max_num_lines_to_graph = 0
    /\ return_models = FALSE
    /\ seed = 0
    /\ name_stem = NoStem
    /\ v_vals = <<>>
    /\ model_params_list = <<>>
    /\ delete_after = FALSE
    /\ py_random = seed
    /\ np_random = seed
    /\ minima = <<>>
    /\ maxima = <<>>
    /\ k = 0
    /\ samples = <<>>
    /\ subsample = <<>>
    /\ to_plot = <<>>
    /\ best_model = NoModel
    /\ lowest_per_point = <<>>
    /\ highest_per_point = <<>>
    /\ i = 0
    /\ model = NoModel
    /\ vFv_interpolated = <<>>
    /\ calls = <<>>
    /\ models = <<>>
    /\ run = 1
    /\ prev = <<>>
    /\ figures = NoFigures
    /\ current = "none"
    /\ shown = 0
    /\ saved = 0
    /\ pickled = 0
    /\ new_min = Rat(0, 1)
    /\ new_max = Rat(0, 1)
    /\ y_lim = NoLimits
    /\ drew = <<>>
    /\ canvas = <<>>

NextScript ==
    \/ ScriptBest \/ ScriptRanges \/ ScriptEnvelope \/ ScriptFigure \/ ScriptLimits
    \/ ScriptComponents \/ ScriptEic \/ ScriptData \/ ScriptSave

SpecScript == InitScript /\ [][NextScript]_vars

====
